---- MODULE Spec2Model ----
(***************************************************************************)
(* State-machine model of api-batcher: ApiBatcher (batcher.py) and the     *)
(* three strategies (strategy.py).                                         *)
(*                                                                         *)
(* One caller thread owns the batcher and issues enqueue(), push() and     *)
(* direct strategy.do() calls.  Under ConcurrentStrategy the caller        *)
(* submits one future per queue position to a thread pool; every future   *)
(* is run by its own worker thread (max_workers = len(entities)), and the  *)
(* caller consumes the futures through as_completed.                       *)
(*                                                                         *)
(* An entity action (entity.post / entity.sync) is opaque network I/O:     *)
(* every invocation either completes normally or raises, chosen            *)
(* nondeterministically.                                                   *)
(***************************************************************************)
EXTENDS Integers, Sequences, FiniteSets, TLC

\* ---------------------------------------------------------------- bounds
NumEntities == 3        \* distinct entity objects available to the caller
MaxQueue == 3           \* longest queue explored

Entities == 1..NumEntities

\* ------------------------------------------------------------- constants
API_POST == "post"
API_SYNC == "sync"
valid_actions == {API_POST, API_SYNC}

\* actions a caller may pass to do(): the valid ones and an unsupported one
Actions == valid_actions \cup {"delete"}

Kinds == {"sequential", "concurrent", "batch"}

\* values of os.getenv('API_MODE'): unset (None), the three recognized
\* names, or any other string
Modes == {"unset", "sequential", "concurrent", "batch", "bogus"}

\* A strategy reference is either an instance of a strategy class or the
\* class object itself.
Instance(k) == [kind |-> k, instance |-> TRUE]
Class(k) == [kind |-> k, instance |-> FALSE]
None == [kind |-> "none", instance |-> FALSE]

\* Variant of API_STRATEGY whose default factory is SequentialStrategy.
API_STRATEGY_DefaultSequential(key) ==
    IF key \in Kinds THEN Class(key) ELSE Instance("sequential")

\* API_STRATEGY[key]: a defaultdict whose explicit entries are the strategy
\* CLASSES and whose default factory ConcurrentStrategy() builds an INSTANCE.
API_STRATEGY(key) ==
    IF key \in Kinds THEN Class(key) ELSE Instance("concurrent")

\* self.strategy = strategy or API_STRATEGY[os.getenv('API_MODE')]
SelectStrategy(inj, mode) ==
    IF inj # None THEN inj ELSE API_STRATEGY(mode)

\* ----------------------------------------------------------------- state
VARIABLES
    entities,   \* ApiBatcher.entities: the queue, a sequence of entity ids
    strategy,   \* ApiBatcher.strategy
    injected,   \* the strategy argument the constructor was given
    apiMode,    \* the value of API_MODE the constructor saw
    fault,      \* how entity actions fail: at any invocation (det = FALSE), or
                \* always and only for the <<entity, action>> pairs in raises
    prev,       \* the finished do call before the current one: its inputs and
                \* its outcome sets (kept when entity actions are deterministic)
    hasId,      \* entities whose id attribute is set (Post.id is not None)
    pc,         \* caller position: idle | seq | submit | join
    caller,     \* top-level call running or last run: none | push | do
    action,     \* action argument of the current / last strategy.do call
    args,       \* entities argument of the current / last strategy.do call
    idx,        \* loop position of the for / submit loop
    st,         \* st[a][i]: state of the invocation of action a on position i
    handled,    \* futures already yielded by as_completed
    log,        \* records emitted by logging in the current do call
    calls,      \* calls[e][a]: invocations of e.a since the top-level call began
    ndo,        \* strategy.do calls made since the top-level call began
    err         \* exception that ended the last top-level call, or "none"

vars == <<entities, strategy, injected, apiMode, fault, prev, hasId, pc, caller, action,
          args, idx, st, handled, log, calls, ndo, err>>

Status == {"none", "pending", "running", "ok", "exc"}
Done == {"ok", "exc"}

NoInvocations == [a \in Actions |-> [i \in 1..MaxQueue |-> "none"]]
NoCalls == [e \in Entities |-> [a \in Actions |-> 0]]

Range(s) == {s[i] : i \in 1..Len(s)}

\* ------------------------------------------------------------------ Init
\* ApiBatcher.__init__: empty queue, strategy resolved once.  Nothing reads
\* the constructor argument or API_MODE again, so one construction is taken
\* for each value self.strategy can get: the three injected instances, and
\* the three class objects the recognized API_MODE values select.
Configs ==
    {<<Instance(k), "unset">> : k \in Kinds} \cup {<<None, m>> : m \in Kinds}

\* Entity actions that may raise at any invocation, and entity actions that
\* raise exactly for the pairs in F.
Unconstrained == [det |-> FALSE, raises |-> {}]
Deterministic(F) == [det |-> TRUE, raises |-> F]

\* No earlier do call.
NoPrev ==
    [action |-> "none", args |-> <<>>, invoked |-> {}, ok |-> {}, exc |-> {}]

\* The batcher right after construction: nothing queued, nothing called.
Quiescent ==
    /\ prev = NoPrev
    /\ entities = <<>>
    /\ hasId = {}
    /\ pc = "idle"
    /\ caller = "none"
    /\ action = "none"
    /\ args = <<>>
    /\ idx = 1
    /\ st = NoInvocations
    /\ handled = {}
    /\ log = <<>>
    /\ calls = NoCalls
    /\ ndo = 0
    /\ err = "none"

Init ==
    /\ \E c \in Configs :
          /\ injected = c[1]
          /\ apiMode = c[2]
          /\ strategy = SelectStrategy(c[1], c[2])
    /\ fault = Unconstrained
    /\ Quiescent

\* --------------------------------------------------------------- enqueue
\* Entity ids name the distinct objects in order of first appearance: the
\* entity enqueued is either one already queued (the same object again) or
\* the next object not seen so far.
Enqueueable ==
    {e \in Entities : \A f \in Entities : f < e => f \in Range(entities)}

\* ApiBatcher.enqueue
Enqueue(e) ==
    /\ pc = "idle"
    /\ Len(entities) < MaxQueue
    /\ e \in Enqueueable
    /\ entities' = Append(entities, e)
    /\ UNCHANGED <<strategy, injected, apiMode, fault, prev, hasId, pc, caller, action,
                   args, idx, st, handled, log, calls, ndo, err>>

\* ------------------------------------------------------------ strategies
\* Variant of BaseStrategy.do without the valid_actions test.
BaseStrategy_do_NoActionTest(a, ents) ==
    IF ents = <<>> THEN "EmptyInput" ELSE "none"

\* Variant of BaseStrategy.do without the emptiness test.
BaseStrategy_do_NoEmptyTest(a, ents) ==
    IF a \notin valid_actions THEN "InvalidAction" ELSE "none"

\* BaseStrategy.do: the two precondition checks.
BaseStrategy_do(a, ents) ==
    IF a \notin valid_actions THEN "InvalidAction"
    ELSE IF ents = <<>> THEN "EmptyInput"
    ELSE "none"

\* Variant in which BatchStrategy.do defers to the base class like the other
\* two strategies instead of raising.
Precheck_BatchRuns(s, a, ents) ==
    IF ~s.instance THEN "TypeError" ELSE BaseStrategy_do(a, ents)

\* What strategy.do(a, ents) raises before touching any entity.
\*   a class object: do is an unbound method, the call is a TypeError;
\*   BatchStrategy.do raises NotImplementedError first thing;
\*   Sequential/ConcurrentStrategy.do start with super().do(action, entities).
Precheck(s, a, ents) ==
    IF ~s.instance THEN "TypeError"
    ELSE IF s.kind = "batch" THEN "NotImplemented"
    ELSE BaseStrategy_do(a, ents)

\* The do call that is over when the next one is entered: its action, its
\* entities, and the positions it invoked, that succeeded and that failed.
Finished ==
    IF action \in valid_actions
    THEN [action |-> action,
          args |-> args,
          invoked |-> {i \in 1..Len(args) : st[action][i] # "none"},
          ok |-> {i \in 1..Len(args) : st[action][i] = "ok"},
          exc |-> {i \in 1..Len(args) : st[action][i] = "exc"}]
    ELSE NoPrev

\* Entry into self.strategy.do(a, ents); st0/calls0/n0 are the invocation
\* records the call starts from.
Invoke(a, ents, st0, calls0, n0) ==
    LET e == Precheck(strategy, a, ents) IN
    /\ action' = a
    /\ args' = ents
    /\ ndo' = n0 + 1
    /\ st' = st0
    /\ calls' = calls0
    /\ idx' = 1
    /\ handled' = {}
    /\ log' = <<>>
    /\ err' = e
    /\ pc' = IF e # "none" THEN "idle"
             ELSE IF strategy.kind = "sequential" THEN "seq"
             ELSE IF ents = <<>> THEN "join"
             ELSE "submit"
    /\ prev' = IF fault.det THEN Finished ELSE prev
    /\ UNCHANGED <<entities, strategy, injected, apiMode, fault, hasId>>

\* Variant of push without the empty-queue check.
Push_NoEmptyCheck ==
    /\ pc = "idle"
    /\ caller' = "push"
    /\ Invoke(API_POST, entities, NoInvocations, NoCalls, 0)

\* ApiBatcher.push: the empty-queue check and the POST pass's do call.
Push ==
    /\ pc = "idle"
    /\ caller' = "push"
    /\ IF entities = <<>>
       THEN /\ err' = "EmptyQueue"
            /\ action' = "none"
            /\ args' = <<>>
            /\ ndo' = 0
            /\ st' = NoInvocations
            /\ calls' = NoCalls
            /\ idx' = 1
            /\ handled' = {}
            /\ log' = <<>>
            /\ UNCHANGED <<entities, strategy, injected, apiMode, fault, prev, hasId, pc>>
       ELSE Invoke(API_POST, entities, NoInvocations, NoCalls, 0)

\* A direct call strategy.do(a, ents) on the batcher's strategy, with the
\* queue contents or with an empty sequence.
Do(a, ents) ==
    /\ pc = "idle"
    /\ caller' = "do"
    /\ Invoke(a, ents, NoInvocations, NoCalls, 0)

\* Effect of an action that completed normally on the entity it ran on:
\* Post.post assigns self.id, Post.sync assigns nothing.
Effect(a, e, ids) == IF a = API_POST THEN ids \cup {e} ELSE ids

\* May the invocation of action a on entity e end normally (ok) or by
\* raising (~ok)?  Either way when entity actions are unconstrained; as the
\* fault set says when they are deterministic.
Outcome(a, e, ok) ==
    IF fault.det THEN ok = (<<e, a>> \notin fault.raises) ELSE TRUE

\* SequentialStrategy.do, loop body: getattr(entity, action)() is called.
SeqInvoke ==
    /\ pc = "seq"
    /\ idx <= Len(args)
    /\ st[action][idx] = "none"
    /\ st' = [st EXCEPT ![action][idx] = "running"]
    /\ calls' = [calls EXCEPT ![args[idx]][action] = @ + 1]
    /\ UNCHANGED <<entities, strategy, injected, apiMode, fault, prev, hasId, pc, caller,
                   action, args, idx, handled, log, ndo, err>>

\* SequentialStrategy.do, loop body: the entity action returns or raises.
\* Nothing catches the exception: it leaves do() and the caller.
SeqFinish(ok) ==
    /\ pc = "seq"
    /\ idx <= Len(args)
    /\ st[action][idx] = "running"
    /\ Outcome(action, args[idx], ok)
    /\ IF ok
       THEN /\ st' = [st EXCEPT ![action][idx] = "ok"]
            /\ hasId' = Effect(action, args[idx], hasId)
            /\ idx' = idx + 1
            /\ UNCHANGED <<pc, err>>
       ELSE /\ st' = [st EXCEPT ![action][idx] = "exc"]
            /\ err' = "ActionFailed"
            /\ pc' = "idle"
            /\ UNCHANGED <<hasId, idx>>
    /\ UNCHANGED <<entities, strategy, injected, apiMode, fault, prev, caller, action,
                   args, handled, log, calls, ndo>>

\* ConcurrentStrategy.do: executor.submit(getattr(entity, action)) for the
\* next entity; the dict is complete before as_completed is entered.
Submit ==
    /\ pc = "submit"
    /\ idx <= Len(args)
    /\ st' = [st EXCEPT ![action][idx] = "pending"]
    /\ idx' = idx + 1
    /\ pc' = IF idx = Len(args) THEN "join" ELSE "submit"
    /\ UNCHANGED <<entities, strategy, injected, apiMode, fault, prev, hasId, caller,
                   action, args, handled, log, calls, ndo, err>>

\* A pool thread picks up future i and calls the entity action.
WorkerStart(a, i) ==
    /\ i \in 1..Len(args)
    /\ st[a][i] = "pending"
    /\ st' = [st EXCEPT ![a][i] = "running"]
    /\ calls' = [calls EXCEPT ![args[i]][a] = @ + 1]
    /\ UNCHANGED <<entities, strategy, injected, apiMode, fault, prev, hasId, pc, caller,
                   action, args, idx, handled, log, ndo, err>>

\* Variant in which a raising worker cancels the futures not yet started
\* (they complete with an exception without the action being invoked).
WorkerFinish_CancelSiblings(a, i, ok) ==
    /\ i \in 1..Len(args)
    /\ st[a][i] = "running"
    /\ Outcome(a, args[i], ok)
    /\ st' = [st EXCEPT ![a] =
                 [j \in 1..MaxQueue |->
                     IF j = i THEN (IF ok THEN "ok" ELSE "exc")
                     ELSE IF ~ok /\ st[a][j] = "pending" THEN "exc"
                     ELSE st[a][j]]]
    /\ hasId' = IF ok THEN Effect(a, args[i], hasId) ELSE hasId
    /\ UNCHANGED <<entities, strategy, injected, apiMode, fault, prev, pc, caller, action,
                   args, idx, handled, log, calls, ndo, err>>

\* The entity action of future i returns or raises; the future stores the
\* result or the exception.
WorkerFinish(a, i, ok) ==
    /\ i \in 1..Len(args)
    /\ st[a][i] = "running"
    /\ Outcome(a, args[i], ok)
    /\ st' = [st EXCEPT ![a][i] = IF ok THEN "ok" ELSE "exc"]
    /\ hasId' = IF ok THEN Effect(a, args[i], hasId) ELSE hasId
    /\ UNCHANGED <<entities, strategy, injected, apiMode, fault, prev, pc, caller, action,
                   args, idx, handled, log, calls, ndo, err>>

\* Variant that looks the entity up by completion order instead of by
\* future.
LogRecord_ByCompletionOrder(i) ==
    [level |-> IF st[action][i] = "exc" THEN "error" ELSE "info",
     fut |-> i,
     entity |-> args[Len(log) + 1]]

\* The record logged for future i: logging.error when future.exception()
\* is not None, logging.info otherwise; entity = future_to_entity[future].
LogRecord(i) ==
    [level |-> IF st[action][i] = "exc" THEN "error" ELSE "info",
     fut |-> i,
     entity |-> args[i]]

\* Variant of the as_completed loop body that logs failures only.
Handle_ErrorsOnly(i) ==
    /\ pc = "join"
    /\ i \in 1..Len(args)
    /\ i \notin handled
    /\ st[action][i] \in Done
    /\ handled' = handled \cup {i}
    /\ log' = IF st[action][i] = "exc" THEN Append(log, LogRecord(i)) ELSE log
    /\ UNCHANGED <<entities, strategy, injected, apiMode, fault, prev, hasId, pc, caller,
                   action, args, idx, st, calls, ndo, err>>

\* Variant of the loop body that reads future.result() of every future:
\* the exception of a failed future is re-raised and leaves do().
Handle_ResultReraises(i) ==
    /\ pc = "join"
    /\ i \in 1..Len(args)
    /\ i \notin handled
    /\ st[action][i] \in Done
    /\ handled' = handled \cup {i}
    /\ IF st[action][i] = "exc"
       THEN /\ pc' = "idle"
            /\ err' = "ActionFailed"
            /\ UNCHANGED log
       ELSE /\ log' = Append(log, LogRecord(i))
            /\ UNCHANGED <<pc, err>>
    /\ UNCHANGED <<entities, strategy, injected, apiMode, fault, prev, hasId,
                   caller, action, args, idx, st, calls, ndo>>

\* ConcurrentStrategy.do: as_completed yields a finished future, the loop
\* body logs it.
Handle(i) ==
    /\ pc = "join"
    /\ i \in 1..Len(args)
    /\ i \notin handled
    /\ st[action][i] \in Done
    /\ handled' = handled \cup {i}
    /\ log' = Append(log, LogRecord(i))
    /\ UNCHANGED <<entities, strategy, injected, apiMode, fault, prev, hasId, pc, caller,
                   action, args, idx, st, calls, ndo, err>>

\* Variant that stops waiting at the first completed future.
JoinDone_FirstCompleted == handled # {}

\* as_completed is exhausted: every submitted future has been yielded.
JoinDone == handled = 1..Len(args)

\* Variant of the return path in which push has no SYNC pass.
Return_NoSyncPass ==
    /\ \/ pc = "seq" /\ idx > Len(args)
       \/ pc = "join" /\ JoinDone
    /\ pc' = "idle"
    /\ err' = "none"
    /\ UNCHANGED <<entities, strategy, injected, apiMode, fault, prev, hasId, caller,
                   action, args, idx, st, handled, log, calls, ndo>>

\* Variant of the return path in which push empties the queue when done.
Return_ClearsQueue ==
    /\ \/ pc = "seq" /\ idx > Len(args)
       \/ pc = "join" /\ JoinDone
    /\ IF caller = "push" /\ action = API_POST
       THEN /\ Invoke(API_SYNC, entities, st, calls, ndo)
            /\ UNCHANGED caller
       ELSE /\ pc' = "idle"
            /\ err' = "none"
            /\ entities' = IF caller = "push" THEN <<>> ELSE entities
            /\ UNCHANGED <<strategy, injected, apiMode, fault, prev, hasId,
                           caller, action, args, idx, st, handled, log,
                           calls, ndo>>

\* strategy.do returns normally.  Inside push, the return from the POST pass
\* is followed by the do call of the SYNC pass; otherwise the top-level call
\* is over.
Return ==
    /\ \/ pc = "seq" /\ idx > Len(args)
       \/ pc = "join" /\ JoinDone
    /\ IF caller = "push" /\ action = API_POST
       THEN /\ Invoke(API_SYNC, entities, st, calls, ndo)
            /\ UNCHANGED caller
       ELSE /\ pc' = "idle"
            /\ err' = "none"
            /\ UNCHANGED <<entities, strategy, injected, apiMode, fault, prev, hasId,
                           caller, action, args, idx, st, handled, log,
                           calls, ndo>>

Next ==
    \/ \E e \in Entities : Enqueue(e)
    \/ Push
    \/ \E a \in Actions, ents \in {<<>>, entities} : Do(a, ents)
    \/ SeqInvoke
    \/ \E ok \in BOOLEAN : SeqFinish(ok)
    \/ Submit
    \/ \E a \in Actions, i \in 1..MaxQueue : WorkerStart(a, i)
    \/ \E a \in Actions, i \in 1..MaxQueue, ok \in BOOLEAN :
          WorkerFinish(a, i, ok)
    \/ \E i \in 1..MaxQueue : Handle(i)
    \/ Return

Spec == Init /\ [][Next]_vars

\* ------------------------------------------- short-queue specifications
\* The same batcher explored with queues of at most SmallQueue entities, so
\* that every construction, fair scheduling and deterministic entity
\* actions can each be explored in full.
SmallQueue == 2

\* ApiBatcher.enqueue, on a queue shorter than SmallQueue
EnqueueSmall(e) ==
    /\ Len(entities) < SmallQueue
    /\ Enqueue(e)

NextSmall ==
    \/ \E e \in Entities : EnqueueSmall(e)
    \/ Push
    \/ \E a \in Actions, ents \in {<<>>, entities} : Do(a, ents)
    \/ SeqInvoke
    \/ \E ok \in BOOLEAN : SeqFinish(ok)
    \/ Submit
    \/ \E a \in Actions, i \in 1..MaxQueue : WorkerStart(a, i)
    \/ \E a \in Actions, i \in 1..MaxQueue, ok \in BOOLEAN :
          WorkerFinish(a, i, ok)
    \/ \E i \in 1..MaxQueue : Handle(i)
    \/ Return

\* Every construction ApiBatcher(strategy) under every API_MODE value:
\* no strategy or an instance of one of the three, and the variable unset,
\* set to a recognized name or set to something else.
AllConfigs ==
    {<<i, m>> : i \in {None} \cup {Instance(k) : k \in Kinds}, m \in Modes}

InitCtor ==
    /\ \E c \in AllConfigs :
          /\ injected = c[1]
          /\ apiMode = c[2]
          /\ strategy = SelectStrategy(c[1], c[2])
    /\ fault = Unconstrained
    /\ Quiescent

SpecCtor == InitCtor /\ [][NextSmall]_vars

\* Fair scheduling: the caller thread keeps running while it is inside a
\* call (it submits, consumes finished futures and returns), every pool
\* thread gets to run, and every entity action that was started comes to
\* an end.  Whether and when the caller enqueues or calls is left open.
Fairness ==
    /\ WF_vars(SeqInvoke)
    /\ WF_vars(\E ok \in BOOLEAN : SeqFinish(ok))
    /\ WF_vars(Submit)
    /\ WF_vars(\E a \in Actions, i \in 1..MaxQueue : WorkerStart(a, i))
    /\ WF_vars(\E a \in Actions, i \in 1..MaxQueue, ok \in BOOLEAN :
                  WorkerFinish(a, i, ok))
    /\ WF_vars(\E i \in 1..MaxQueue : Handle(i))
    /\ WF_vars(Return)

\* A batcher built with an injected strategy instance.
InitLive ==
    /\ \E k \in Kinds :
          /\ injected = Instance(k)
          /\ apiMode = "unset"
          /\ strategy = SelectStrategy(Instance(k), "unset")
    /\ fault = Unconstrained
    /\ Quiescent

LiveSpec == InitLive /\ [][NextSmall]_vars /\ Fairness

\* Deterministic entity actions: for each entity that can be queued and each
\* valid action it is fixed once and for all whether the action raises.
FaultSets == SUBSET ((Entities \cap 1..SmallQueue) \X valid_actions)

\* A batcher built with an injected strategy instance, over entities whose
\* actions are deterministic.
InitDet ==
    /\ \E k \in Kinds :
          /\ injected = Instance(k)
          /\ apiMode = "unset"
          /\ strategy = SelectStrategy(Instance(k), "unset")
    /\ \E F \in FaultSets : fault = Deterministic(F)
    /\ Quiescent

DetSpec == InitDet /\ [][NextSmall]_vars

TypeOK ==
    /\ entities \in Seq(Entities) /\ Len(entities) <= MaxQueue
    /\ strategy \in {Instance(k) : k \in Kinds} \cup {Class(k) : k \in Kinds}
    /\ hasId \subseteq Entities
    /\ fault.det \in BOOLEAN
    /\ fault.raises \subseteq Entities \X valid_actions
    /\ prev.action \in valid_actions \cup {"none"}
    /\ prev.invoked \subseteq 1..MaxQueue
    /\ pc \in {"idle", "seq", "submit", "join"}
    /\ caller \in {"none", "push", "do"}
    /\ action \in Actions \cup {"none"}
    /\ Len(args) <= Len(entities) /\ args = SubSeq(entities, 1, Len(args))
    /\ idx \in 1..(MaxQueue + 1)
    /\ st \in [Actions -> [1..MaxQueue -> Status]]
    /\ handled \subseteq 1..MaxQueue
    /\ calls \in [Entities -> [Actions -> 0..MaxQueue]]
    /\ ndo \in 0..2
    /\ err \in {"none", "EmptyQueue", "InvalidAction", "EmptyInput",
                "NotImplemented", "TypeError", "ActionFailed"}

\* ---------------------------------------------------------------- helpers
Positions == 1..Len(args)

\* number of queue positions of the current call holding entity e
Occurrences(e) == Cardinality({i \in Positions : args[i] = e})

\* number of records of a given level in the log of the current call
Logged(l) == Cardinality({k \in 1..Len(log) : log[k].level = l})

\* positions whose invocation of the current action ended in status s
Ended(s) == {i \in Positions : st[action][i] = s}

\* a ConcurrentStrategy.do call on valid, non-empty input is returning or
\* has returned
ConcurrentDoComplete ==
    /\ strategy = Instance("concurrent")
    /\ action \in valid_actions
    /\ args # <<>>
    /\ \/ pc = "join" /\ JoinDone
       \/ pc = "idle"

\* ----------------------------------------------------------------- claims

\* C1: during push(), no SYNC invocation exists (not even a submitted one)
\* unless the POST invocation of every queue position has finished, by
\* returning or by raising.
C1_PostPassBeforeSyncPass ==
    caller = "push" =>
        \A i \in Positions :
            st[API_SYNC][i] # "none" =>
                \A j \in Positions : st[API_POST][j] \in Done

\* C1 witness: concurrent push over three entities, a SYNC worker running
\* next to a still pending one, after a POST pass in which one POST raised.
C1_Witness ==
    /\ caller = "push"
    /\ strategy = Instance("concurrent")
    /\ Len(args) = 3
    /\ st[API_POST][1] = "exc"
    /\ st[API_SYNC][2] = "running"
    /\ st[API_SYNC][3] = "pending"

\* C2: when ConcurrentStrategy.do is over, the log holds exactly one record
\* for every input position, tied to the entity at that position, and every
\* entity's action was invoked once per position it occupies.
C2_OneOutcomePerEntity ==
    ConcurrentDoComplete =>
        /\ Len(log) = Len(args)
        /\ \A i \in Positions :
              Cardinality({k \in 1..Len(log) : log[k].fut = i}) = 1
        /\ \A k \in 1..Len(log) : log[k].entity = args[log[k].fut]
        /\ \A e \in Entities : calls[e][action] = Occurrences(e)

\* C2 witness: three entities, outcomes recorded in an order other than the
\* input order, a failure among them.
C2_Witness ==
    /\ ConcurrentDoComplete
    /\ pc = "idle"
    /\ Len(log) = 3
    /\ log[1].fut = 3
    /\ log[2].fut = 1
    /\ log[1].level = "error"
    /\ log[3].level = "info"

\* C3: when ConcurrentStrategy.do is over, every position's action was
\* invoked and ran to completion whatever its siblings did, and the log
\* holds as many error records as actions raised and as many info records
\* as actions returned.
C3_FailureSparesSiblings ==
    ConcurrentDoComplete =>
        /\ \A i \in Positions : st[action][i] \in Done
        /\ \A e \in Range(args) : calls[e][action] >= Occurrences(e)
        /\ Logged("error") = Cardinality(Ended("exc"))
        /\ Logged("info") = Cardinality(Ended("ok"))
        /\ Cardinality(Ended("exc")) + Cardinality(Ended("ok")) = Len(args)

\* C3 witness: the POST pass over three distinct entities is over, entity #2
\* raised, #1 and #3 were invoked and returned: one failure, two successes.
C3_Witness ==
    /\ ConcurrentDoComplete
    /\ action = API_POST
    /\ args = <<1, 2, 3>>
    /\ st[API_POST] = [i \in 1..MaxQueue |->
                          IF i = 2 THEN "exc" ELSE IF i \in {1, 3} THEN "ok"
                          ELSE "none"]
    /\ calls[1][API_POST] = 1
    /\ calls[3][API_POST] = 1
    /\ Logged("error") = 1
    /\ Logged("info") = 2

\* C4: after SequentialStrategy.do on valid, non-empty input, the action of
\* every entity has been invoked and the call was not aborted by a failing
\* action.
C4_SequentialContinuesAfterFailure ==
    (/\ strategy = Instance("sequential")
     /\ pc = "idle"
     /\ action \in valid_actions
     /\ args # <<>>)
    => /\ err # "ActionFailed"
       /\ \A i \in Positions : st[action][i] \in Done

\* C5: push() on an empty queue ends with EmptyQueue, has made no
\* strategy.do call and has invoked no entity action.
C5_EmptyPushFails ==
    (pc = "idle" /\ caller = "push" /\ args = <<>>)
    => /\ err = "EmptyQueue"
       /\ ndo = 0
       /\ calls = NoCalls
       /\ st = NoInvocations
       /\ log = <<>>

\* C5 witness: push() on the empty queue of a batcher with a concurrent
\* strategy has ended with EmptyQueue.
C5_Witness ==
    /\ pc = "idle"
    /\ caller = "push"
    /\ entities = <<>>
    /\ args = <<>>
    /\ err = "EmptyQueue"
    /\ strategy = Instance("concurrent")

\* a direct do call with an unsupported action on a strategy instance is over
InvalidActionCall ==
    /\ pc = "idle"
    /\ caller = "do"
    /\ action \notin valid_actions
    /\ strategy.instance

\* C6 as stated: every strategy answers an unsupported action with
\* InvalidAction, without invoking an entity action.
C6_InvalidActionEveryStrategy ==
    InvalidActionCall =>
        /\ err = "InvalidAction"
        /\ calls = NoCalls
        /\ st = NoInvocations

\* C6 amended: the sequential and the concurrent strategy answer an
\* unsupported action with InvalidAction, the batch strategy answers it with
\* NotImplemented, and none of them invokes an entity action.
C6_InvalidActionAmended ==
    InvalidActionCall =>
        /\ err = IF strategy.kind = "batch" THEN "NotImplemented"
                 ELSE "InvalidAction"
        /\ calls = NoCalls
        /\ st = NoInvocations
        /\ log = <<>>

\* C6 witness: do("delete", queue) on a concurrent strategy with a non-empty
\* queue ended with InvalidAction.
C6_Witness ==
    /\ InvalidActionCall
    /\ strategy = Instance("concurrent")
    /\ Len(args) = 2
    /\ err = "InvalidAction"

\* a direct do call with a valid action and no entities on a strategy
\* instance is over
EmptyInputCall ==
    /\ pc = "idle"
    /\ caller = "do"
    /\ action \in valid_actions
    /\ args = <<>>
    /\ strategy.instance

\* C7 as stated: every strategy answers an empty entity sequence with
\* EmptyInput and does no work.
C7_EmptyInputEveryStrategy ==
    EmptyInputCall =>
        /\ err = "EmptyInput"
        /\ calls = NoCalls
        /\ st = NoInvocations

\* C7 amended: the sequential and the concurrent strategy answer an empty
\* entity sequence with EmptyInput, the batch strategy answers it with
\* NotImplemented, and none of them does any work (nothing submitted,
\* nothing invoked, nothing logged).
C7_EmptyInputAmended ==
    EmptyInputCall =>
        /\ err = IF strategy.kind = "batch" THEN "NotImplemented"
                 ELSE "EmptyInput"
        /\ calls = NoCalls
        /\ st = NoInvocations
        /\ handled = {}
        /\ log = <<>>

\* C7 witness: do(sync, []) on a concurrent strategy whose batcher has a
\* non-empty queue ended with EmptyInput.
C7_Witness ==
    /\ EmptyInputCall
    /\ strategy = Instance("concurrent")
    /\ action = API_SYNC
    /\ entities # <<>>
    /\ err = "EmptyInput"

\* C8: under the batch strategy no entity action is ever invoked and no
\* entity changes; a do call on valid, non-empty input ends with
\* NotImplemented, and a push() on a non-empty queue ends that way in its
\* POST pass, the only do call it makes.
C8_BatchNotImplemented ==
    strategy = Instance("batch") =>
        /\ pc = "idle"
        /\ calls = NoCalls
        /\ st = NoInvocations
        /\ hasId = {}
        /\ (action \in valid_actions /\ args # <<>>)
              => err = "NotImplemented"
        /\ (caller = "push" /\ args # <<>>)
              => (action = API_POST /\ ndo = 1)

\* C8 witness: push() under the batch strategy on a queue of two entities
\* ended with NotImplemented.
C8_Witness ==
    /\ strategy = Instance("batch")
    /\ caller = "push"
    /\ Len(args) = 2
    /\ err = "NotImplemented"

\* the queue of the current call holds no entity twice
Distinct == \A i, j \in Positions : args[i] = args[j] => i = j

\* no entity action raised during the current top-level call
NoFailure == \A a \in valid_actions, i \in Positions : st[a][i] # "exc"

\* C9: a push() under a sequential or concurrent strategy instance over a
\* non-empty queue of distinct entities during which no action raised ends
\* without error, with every queued entity's POST and SYNC invoked exactly
\* once.
C9_PushInvokesEachOnce ==
    (/\ strategy \in {Instance("sequential"), Instance("concurrent")}
     /\ caller = "push"
     /\ pc = "idle"
     /\ args # <<>>
     /\ Distinct
     /\ NoFailure)
    => /\ err = "none"
       /\ \A e \in Range(args) :
             calls[e][API_POST] = 1 /\ calls[e][API_SYNC] = 1
       /\ \A i \in Positions :
             st[API_POST][i] = "ok" /\ st[API_SYNC][i] = "ok"

\* C9 witness: a concurrent push() over three distinct entities has ended
\* with every POST and SYNC returned.
C9_Witness ==
    /\ strategy = Instance("concurrent")
    /\ caller = "push"
    /\ pc = "idle"
    /\ args = <<1, 2, 3>>
    /\ NoFailure
    /\ err = "none"
    /\ \A e \in 1..3 : calls[e][API_SYNC] = 1

\* C10: SequentialStrategy.do runs the actions one at a time in input order
\* (position i+1 is not invoked before position i has finished), and when
\* the call on valid, non-empty input is over there is one outcome per
\* input position.
C10_SequentialOrderedOutcomes ==
    (strategy = Instance("sequential") /\ action \in valid_actions) =>
        /\ \A i \in Positions :
              (i > 1 /\ st[action][i] # "none") => st[action][i - 1] \in Done
        /\ Cardinality({i \in Positions : st[action][i] = "running"}) <= 1
        /\ (pc = "idle" /\ args # <<>>)
              => Cardinality(Ended("ok") \cup Ended("exc")) = Len(args)

C12_RecognizedModeUsable ==
    (/\ injected = None
     /\ apiMode \in Kinds
     /\ caller = "push"
     /\ pc = "idle"
     /\ args # <<>>)
    => /\ strategy = Instance(apiMode)
       /\ err # "TypeError"
       /\ IF apiMode = "batch" THEN err = "NotImplemented"
          ELSE calls[args[1]][API_POST] >= 1

\* C13: with nothing injected and API_MODE unset, a push() on a non-empty
\* queue is carried out by the sequential strategy: through the sequential
\* loop, never through the thread pool.
C13_DefaultIsSequential ==
    (/\ injected = None
     /\ apiMode = "unset"
     /\ caller = "push"
     /\ args # <<>>)
    => /\ strategy = Instance("sequential")
       /\ pc \notin {"submit", "join"}

\* C14: a step either leaves the queue as it is, or is an enqueue: made by
\* the idle caller, appending one entity at the end and changing nothing
\* else.  No step removes, reorders or clears queue elements, and every
\* pass of a push() is handed the whole queue.
C14_QueueIsAppendOnly ==
    [][ /\ \/ entities' = entities
           \/ /\ pc = "idle"
              /\ \E e \in Entities : entities' = Append(entities, e)
              /\ UNCHANGED <<strategy, injected, apiMode, fault, prev, hasId, pc,
                             caller, action, args, idx, st, handled, log,
                             calls, ndo, err>>
        /\ (caller' = "push" /\ pc' # "idle") => args' = entities'
      ]_vars

\* C14 witness: a push() over the queue <<1, 2>> has ended in which the POST
\* of entity 1 raised although entity 1 already has an id: entity 1 had
\* been posted before and was processed again.
C14_Witness ==
    /\ strategy = Instance("concurrent")
    /\ caller = "push"
    /\ pc = "idle"
    /\ entities = <<1, 2>>
    /\ args = entities
    /\ 1 \in hasId
    /\ st[API_POST][1] = "exc"
    /\ calls[1][API_SYNC] = 1
    /\ err = "none"

\* C15: when a push() under a sequential or concurrent strategy instance
\* is over and the POST of some queued entity raised in it, SYNC has been
\* invoked on every queue position, the failed ones included.
C15_SyncNotFiltered ==
    (/\ strategy \in {Instance("sequential"), Instance("concurrent")}
     /\ caller = "push"
     /\ pc = "idle"
     /\ \E i \in Positions : st[API_POST][i] = "exc")
    => \A i \in Positions : st[API_SYNC][i] \in Done

\* C16: at every moment of a ConcurrentStrategy.do call the log holds one
\* record for each future as_completed has yielded and none for the others;
\* a record is an error record exactly if its future's action raised, and
\* the entity it names is the entity that future was submitted for.
C16_LogMatchesWorkers ==
    (strategy = Instance("concurrent") /\ action \in valid_actions) =>
        /\ \A i \in Positions :
              Cardinality({k \in 1..Len(log) : log[k].fut = i})
                  = IF i \in handled THEN 1 ELSE 0
        /\ \A k \in 1..Len(log) :
              /\ log[k].fut \in Positions
              /\ st[action][log[k].fut] \in Done
              /\ (log[k].level = "error") = (st[action][log[k].fut] = "exc")
              /\ (log[k].level = "info") = (st[action][log[k].fut] = "ok")
              /\ log[k].level = "error" => log[k].entity = args[log[k].fut]

\* C16 witness: three distinct entities; the third finished first and
\* raised, its error record names entity 3; an info record of the first
\* follows while the second is still running.
C16_Witness ==
    /\ strategy = Instance("concurrent")
    /\ pc = "join"
    /\ args = <<1, 2, 3>>
    /\ Len(log) = 2
    /\ log[1] = [level |-> "error", fut |-> 3, entity |-> 3]
    /\ log[2] = [level |-> "info", fut |-> 1, entity |-> 1]
    /\ st[action][2] = "running"

\* C17: under the concurrent strategy no two workers are executing an
\* action on the same entity at the same moment.
C17_NoSharedEntity ==
    strategy = Instance("concurrent") =>
        \A a \in valid_actions : \A i, j \in Positions :
            (/\ st[a][i] = "running"
             /\ st[a][j] = "running"
             /\ args[i] = args[j]) => i = j

\* C18: under fair scheduling a call running under the concurrent strategy
\* always comes to its end; and whenever a ConcurrentStrategy.do call on
\* valid, non-empty input is over, no worker it launched is still pending
\* or running and no error has left the call, whichever actions raised.
C18_ConcurrentDoReturns ==
    /\ []((/\ strategy = Instance("concurrent")
           /\ pc = "idle"
           /\ action \in valid_actions
           /\ args # <<>>)
          => /\ err = "none"
             /\ \A a \in valid_actions, i \in 1..MaxQueue :
                   st[a][i] \notin {"pending", "running"})
    /\ (strategy = Instance("concurrent") /\ pc # "idle") ~> (pc = "idle")

\* C18 witness: a concurrent push() over two entities has returned without
\* error although a POST and a SYNC raised.
C18_Witness ==
    /\ strategy = Instance("concurrent")
    /\ caller = "push"
    /\ pc = "idle"
    /\ Len(args) = 2
    /\ st[API_POST][1] = "exc"
    /\ st[API_SYNC][2] = "exc"
    /\ err = "none"

\* positions of the current call whose action raises, entity actions being
\* deterministic
Failing == {i \in Positions : <<args[i], action>> \in fault.raises}

\* positions on which the current action has been invoked
Invoked == {i \in Positions : st[action][i] # "none"}

\* C19: with deterministic entity actions, a finished do call on valid,
\* non-empty input and the do call before it, if that one had the same
\* action and the same entity sequence, agree on the positions invoked, on
\* those that succeeded and on those that failed, in whatever order the
\* workers completed.  The membership is the one the inputs fix.
\* Concurrent: all invoked, exactly the failing ones fail.  Sequential:
\* invoked up to the first failing one, which fails.  Batch: none invoked.
C19_SameMembershipTwice ==
    (/\ fault.det
     /\ strategy.instance
     /\ pc = "idle"
     /\ action \in valid_actions
     /\ args # <<>>)
    => /\ (prev.action = action /\ prev.args = args)
             => /\ prev.invoked = Invoked
                /\ prev.ok = Ended("ok")
                /\ prev.exc = Ended("exc")
       /\ LET stop == {i \in Positions : \A j \in Failing : i <= j}
          IN  CASE strategy.kind = "concurrent" ->
                     /\ Invoked = Positions
                     /\ Ended("exc") = Failing
                     /\ Ended("ok") = Positions \ Failing
                [] strategy.kind = "sequential" ->
                     /\ Invoked = stop
                     /\ Ended("exc") = stop \cap Failing
                     /\ Ended("ok") = stop \ Failing
                [] OTHER ->
                     /\ Invoked = {}
                     /\ calls = NoCalls

\* C19 witness: entity 1's POST always raises; a concurrent
\* do(post, <<1, 2>>) is over in which entity 2 completed first, and the
\* do call before it was a do(post, <<1, 2>>) too.
C19_Witness ==
    /\ prev.action = API_POST
    /\ prev.args = <<1, 2>>
    /\ prev.exc = {1}
    /\ fault = Deterministic({<<1, API_POST>>})
    /\ strategy = Instance("concurrent")
    /\ caller = "do"
    /\ pc = "idle"
    /\ action = API_POST
    /\ args = <<1, 2>>
    /\ Len(log) = 2
    /\ log[1].fut = 2
    /\ st[API_POST][1] = "exc"
    /\ st[API_POST][2] = "ok"

====
